---- MODULE Spec2Model ----
(***************************************************************************)
(* Model of src/algorithms.py: clean_overlap, clean_geometry_artifacts and *)
(* get_feature_area, three straight-line functions over the QgsGeometry    *)
(* engine.                                                                 *)
(*                                                                         *)
(* Python objects live in `heap` (a sequence; the index is the object's    *)
(* identity).  A geometry value is a record                                *)
(*     [null, verts, ok]                                                   *)
(* where verts is the vertex sequence (points on a line, so that           *)
(* coincidence of consecutive vertices is decidable), ok is the outcome of *)
(* the engine's validity predicate on that value, and null marks the       *)
(* geometry-less value built by QgsGeometry().  What the engine computes   *)
(* (intersects, difference, makeValid, the validity of a deduplicated      *)
(* geometry, a failure of any call) is not in this repository and is a     *)
(* nondeterministic choice over everything the engine's contract allows.   *)
(***************************************************************************)
EXTENDS Integers, Sequences, FiniteSets, TLC

MaxPt == 2
MaxLen == 2

VARIABLES fn, pc, heap, heap0, subject, clipper, local, feature, ret,
          calls, pass, first, nullValid

vars == <<fn, pc, heap, heap0, subject, clipper, local, feature, ret,
          calls, pass, first, nullValid>>

----------------------------------------------------------------------------
(* Geometry values *)

Pts == 1..MaxPt

VertSeqs == UNION {[1..n -> Pts] : n \in 0..MaxLen}

NullGeom(nv) == [null |-> TRUE, verts |-> <<>>, ok |-> nv]

ShapeGeoms == [null : {FALSE}, verts : VertSeqs, ok : BOOLEAN]

Geoms(nv) == ShapeGeoms \cup {NullGeom(nv)}

(* The clipper is only ever handed to the engine (lines 18 and 23), whose
   answers are free; one geometry of each kind stands for it. *)
Clippers(nv) ==
  {NullGeom(nv),
   [null |-> FALSE, verts |-> <<>>, ok |-> TRUE],
   [null |-> FALSE, verts |-> <<1>>, ok |-> TRUE],
   [null |-> FALSE, verts |-> <<1, 1>>, ok |-> FALSE]}

RECURSIVE Dedup(_)
Dedup(s) ==
  IF Len(s) <= 1 THEN s
  ELSE IF s[1] = s[2] THEN Dedup(Tail(s))
       ELSE <<s[1]>> \o Dedup(Tail(s))

HasDup(s) == \E i \in 1..(Len(s) - 1) : s[i] = s[i + 1]

(* Engine operations, as functions of the value they are called on *)

isEmpty(v) == v.null \/ v.verts = <<>>

isGeosValid(v) == v.ok

removeDuplicateNodes(v, b) ==
  IF Dedup(v.verts) = v.verts THEN v
  ELSE [v EXCEPT !.verts = Dedup(v.verts), !.ok = b]

makeValid(nv) == {g \in Geoms(nv) : isGeosValid(g)}

difference(nv) == Geoms(nv)

Truthy(v) == ~v.null

SetMax(S) == CHOOSE x \in S : \A y \in S : y <= x
SetMin(S) == CHOOSE x \in S : \A y \in S : x <= y
Range(s) == {s[i] : i \in 1..Len(s)}

area(v) ==
  IF v.null THEN -1
  ELSE IF v.verts = <<>> THEN 0
  ELSE SetMax(Range(v.verts)) - SetMin(Range(v.verts))

----------------------------------------------------------------------------
(* Return values and the log of engine calls *)

None == [kind |-> "none", v |-> 0]
GeomRef(id) == [kind |-> "geom", v |-> id]
Num(n) == [kind |-> "num", v |-> n]

Call(op, on, res) == [op |-> op, on |-> on, res |-> res]

Bool(b) == IF b THEN "true" ELSE "false"

Log(op, on, res) == Append(calls, Call(op, on, res))

----------------------------------------------------------------------------
(* Program positions: one per engine call of the source *)

Fns == {"clean_overlap", "clean_geometry_artifacts", "get_feature_area"}

OpAt(p) ==
  CASE p = "co_intersects" -> "intersects"
    [] p = "co_difference" -> "difference"
    [] p = "co_isGeosValid" -> "isGeosValid"
    [] p = "co_makeValid" -> "makeValid"
    [] p = "co_removeDuplicateNodes" -> "removeDuplicateNodes"
    [] p = "co_isEmpty" -> "isEmpty"
    [] p = "ga_isEmpty" -> "isEmpty"
    [] p = "ga_removeDuplicateNodes" -> "removeDuplicateNodes"
    [] p = "ga_isGeosValid" -> "isGeosValid"
    [] p = "ga_makeValid" -> "makeValid"
    [] p = "fa_geometry" -> "geometry"
    [] p = "fa_geometry2" -> "geometry"
    [] p = "fa_area" -> "area"

CallPcs ==
  {"co_intersects", "co_difference", "co_isGeosValid", "co_makeValid",
   "co_removeDuplicateNodes", "co_isEmpty", "ga_isEmpty",
   "ga_removeDuplicateNodes", "ga_isGeosValid", "ga_makeValid",
   "fa_geometry", "fa_geometry2", "fa_area"}

(* The object the call at position p is made on (0: the feature) *)
TargetAt(p) ==
  IF p = "co_intersects" \/ p = "co_difference" THEN subject
  ELSE IF p = "fa_geometry" \/ p = "fa_geometry2" THEN 0
  ELSE local

(* Where control continues after the call at position p, when the call is
   skipped over *)
NextPc(p) ==
  CASE p = "co_intersects" -> "co_difference"
    [] p = "co_difference" -> "co_isGeosValid"
    [] p = "co_isGeosValid" -> "co_removeDuplicateNodes"
    [] p = "co_makeValid" -> "co_removeDuplicateNodes"
    [] p = "co_removeDuplicateNodes" -> "co_isEmpty"
    [] p = "ga_isEmpty" -> "ga_removeDuplicateNodes"
    [] p = "ga_removeDuplicateNodes" -> "ga_isGeosValid"
    [] p = "fa_geometry" -> "fa_geometry2"
    [] p = "fa_geometry2" -> "fa_area"
    [] OTHER -> "done"

----------------------------------------------------------------------------
(* Initial states: one call of one of the three functions, on any inputs *)

InitOverlap ==
  /\ fn = "clean_overlap"
  /\ \E a \in Geoms(nullValid), b \in Clippers(nullValid) : heap = <<a, b>>
  /\ subject = 1 /\ clipper = 2 /\ local = 0
  /\ feature = [geom |-> NullGeom(nullValid)]
  /\ pc = "co_intersects"

InitArtifacts ==
  /\ fn = "clean_geometry_artifacts"
  /\ \E g \in Geoms(nullValid) : heap = <<g>>
  /\ subject = 1 /\ clipper = 0 /\ local = 1
  /\ feature = [geom |-> NullGeom(nullValid)]
  /\ pc = "ga_isEmpty"

InitArea ==
  /\ fn = "get_feature_area"
  /\ heap = <<>>
  /\ subject = 0 /\ clipper = 0 /\ local = 0
  /\ \E g \in Geoms(nullValid) : feature = [geom |-> g]
  /\ pc = "fa_geometry"

Init ==
  /\ nullValid \in BOOLEAN
  /\ InitOverlap \/ InitArtifacts \/ InitArea
  /\ heap0 = heap
  /\ ret = None
  /\ calls = <<>>
  /\ pass = 1
  /\ first = NullGeom(nullValid)

----------------------------------------------------------------------------
(* clean_overlap *)

(* Variant: the test of line 18 without its `not` *)
CO_Intersects_Inverted ==
  /\ fn = "clean_overlap" /\ pc = "co_intersects"
  /\ \E r \in BOOLEAN :
       /\ calls' = Log("intersects", subject, Bool(r))
       /\ IF r
          THEN ret' = GeomRef(subject) /\ pc' = "done"
          ELSE ret' = ret /\ pc' = "co_difference"
  /\ UNCHANGED <<fn, heap, heap0, subject, clipper, local, feature, pass,
                 first, nullValid>>

CO_Intersects ==
  /\ fn = "clean_overlap" /\ pc = "co_intersects"
  /\ \E r \in BOOLEAN :
       /\ calls' = Log("intersects", subject, Bool(r))
       /\ IF ~r
          THEN ret' = GeomRef(subject) /\ pc' = "done"
          ELSE ret' = ret /\ pc' = "co_difference"
  /\ UNCHANGED <<fn, heap, heap0, subject, clipper, local, feature, pass,
                 first, nullValid>>

(* Variant: the difference is written into the subject itself *)
CO_Difference_InPlace ==
  /\ fn = "clean_overlap" /\ pc = "co_difference"
  /\ \E d \in difference(nullValid) : heap' = [heap EXCEPT ![subject] = d]
  /\ local' = subject
  /\ calls' = Log("difference", subject, "-")
  /\ pc' = "co_isGeosValid"
  /\ UNCHANGED <<fn, heap0, subject, clipper, feature, ret, pass, first,
                 nullValid>>

CO_Difference ==
  /\ fn = "clean_overlap" /\ pc = "co_difference"
  /\ \E d \in difference(nullValid) : heap' = Append(heap, d)
  /\ local' = Len(heap) + 1
  /\ calls' = Log("difference", subject, "-")
  /\ pc' = "co_isGeosValid"
  /\ UNCHANGED <<fn, heap0, subject, clipper, feature, ret, pass, first,
                 nullValid>>

(* Variant: makeValid is called whatever the check answers *)
CO_IsGeosValid_AlwaysRepair ==
  /\ fn = "clean_overlap" /\ pc = "co_isGeosValid"
  /\ calls' = Log("isGeosValid", local, Bool(isGeosValid(heap[local])))
  /\ pc' = "co_makeValid"
  /\ UNCHANGED <<fn, heap, heap0, subject, clipper, local, feature, ret,
                 pass, first, nullValid>>

CO_IsGeosValid ==
  /\ fn = "clean_overlap" /\ pc = "co_isGeosValid"
  /\ calls' = Log("isGeosValid", local, Bool(isGeosValid(heap[local])))
  /\ pc' = IF ~isGeosValid(heap[local]) THEN "co_makeValid"
           ELSE "co_removeDuplicateNodes"
  /\ UNCHANGED <<fn, heap, heap0, subject, clipper, local, feature, ret,
                 pass, first, nullValid>>

CO_MakeValid ==
  /\ fn = "clean_overlap" /\ pc = "co_makeValid"
  /\ \E m \in makeValid(nullValid) : heap' = Append(heap, m)
  /\ local' = Len(heap) + 1
  /\ calls' = Log("makeValid", local, "-")
  /\ pc' = "co_removeDuplicateNodes"
  /\ UNCHANGED <<fn, heap0, subject, clipper, feature, ret, pass, first,
                 nullValid>>

(* Variant: line 43 is missing *)
CO_RemoveDuplicateNodes_Skipped ==
  /\ fn = "clean_overlap" /\ pc = "co_removeDuplicateNodes"
  /\ heap' = heap
  /\ calls' = Log("removeDuplicateNodes", local, "-")
  /\ pc' = "co_isEmpty"
  /\ UNCHANGED <<fn, heap0, subject, clipper, local, feature, ret, pass,
                 first, nullValid>>

CO_RemoveDuplicateNodes ==
  /\ fn = "clean_overlap" /\ pc = "co_removeDuplicateNodes"
  /\ \E b \in BOOLEAN :
       heap' = [heap EXCEPT ![local] = removeDuplicateNodes(@, b)]
  /\ calls' = Log("removeDuplicateNodes", local, "-")
  /\ pc' = "co_isEmpty"
  /\ UNCHANGED <<fn, heap0, subject, clipper, local, feature, ret, pass,
                 first, nullValid>>

(* Variant: the computed geometry is returned even when it is empty *)
CO_IsEmpty_ReturnsComputed ==
  /\ fn = "clean_overlap" /\ pc = "co_isEmpty"
  /\ calls' = Log("isEmpty", local, Bool(isEmpty(heap[local])))
  /\ heap' = heap
  /\ ret' = GeomRef(local)
  /\ pc' = "done"
  /\ UNCHANGED <<fn, heap0, subject, clipper, local, feature, pass, first,
                 nullValid>>

CO_IsEmpty ==
  /\ fn = "clean_overlap" /\ pc = "co_isEmpty"
  /\ calls' = Log("isEmpty", local, Bool(isEmpty(heap[local])))
  /\ IF isEmpty(heap[local])
     THEN /\ heap' = Append(heap, NullGeom(nullValid))
          /\ ret' = GeomRef(Len(heap) + 1)
     ELSE /\ heap' = heap
          /\ ret' = GeomRef(local)
  /\ pc' = "done"
  /\ UNCHANGED <<fn, heap0, subject, clipper, local, feature, pass, first,
                 nullValid>>

----------------------------------------------------------------------------
(* clean_geometry_artifacts *)

(* Variant: the early return of line 62 is missing *)
GA_IsEmpty_NoReturn ==
  /\ fn = "clean_geometry_artifacts" /\ pc = "ga_isEmpty"
  /\ calls' = Log("isEmpty", local, Bool(isEmpty(heap[local])))
  /\ ret' = ret /\ pc' = "ga_removeDuplicateNodes"
  /\ UNCHANGED <<fn, heap, heap0, subject, clipper, local, feature, pass,
                 first, nullValid>>

GA_IsEmpty ==
  /\ fn = "clean_geometry_artifacts" /\ pc = "ga_isEmpty"
  /\ calls' = Log("isEmpty", local, Bool(isEmpty(heap[local])))
  /\ IF isEmpty(heap[local])
     THEN ret' = GeomRef(local) /\ pc' = "done"
     ELSE ret' = ret /\ pc' = "ga_removeDuplicateNodes"
  /\ UNCHANGED <<fn, heap, heap0, subject, clipper, local, feature, pass,
                 first, nullValid>>

(* Variant: line 65 is missing *)
GA_RemoveDuplicateNodes_Skipped ==
  /\ fn = "clean_geometry_artifacts" /\ pc = "ga_removeDuplicateNodes"
  /\ heap' = heap
  /\ calls' = Log("removeDuplicateNodes", local, "-")
  /\ pc' = "ga_isGeosValid"
  /\ UNCHANGED <<fn, heap0, subject, clipper, local, feature, ret, pass,
                 first, nullValid>>

GA_RemoveDuplicateNodes ==
  /\ fn = "clean_geometry_artifacts" /\ pc = "ga_removeDuplicateNodes"
  /\ \E b \in BOOLEAN :
       heap' = [heap EXCEPT ![local] = removeDuplicateNodes(@, b)]
  /\ calls' = Log("removeDuplicateNodes", local, "-")
  /\ pc' = "ga_isGeosValid"
  /\ UNCHANGED <<fn, heap0, subject, clipper, local, feature, ret, pass,
                 first, nullValid>>

GA_IsGeosValid ==
  /\ fn = "clean_geometry_artifacts" /\ pc = "ga_isGeosValid"
  /\ calls' = Log("isGeosValid", local, Bool(isGeosValid(heap[local])))
  /\ IF ~isGeosValid(heap[local])
     THEN ret' = ret /\ pc' = "ga_makeValid"
     ELSE ret' = GeomRef(local) /\ pc' = "done"
  /\ UNCHANGED <<fn, heap, heap0, subject, clipper, local, feature, pass,
                 first, nullValid>>

(* Variant: the result of makeValid is not assigned to `geometry` *)
GA_MakeValid_Discarded ==
  /\ fn = "clean_geometry_artifacts" /\ pc = "ga_makeValid"
  /\ \E m \in makeValid(nullValid) : heap' = Append(heap, m)
  /\ local' = local
  /\ calls' = Log("makeValid", local, "-")
  /\ ret' = GeomRef(local)
  /\ pc' = "done"
  /\ UNCHANGED <<fn, heap0, subject, clipper, feature, pass, first,
                 nullValid>>

GA_MakeValid ==
  /\ fn = "clean_geometry_artifacts" /\ pc = "ga_makeValid"
  /\ \E m \in makeValid(nullValid) : heap' = Append(heap, m)
  /\ local' = Len(heap) + 1
  /\ calls' = Log("makeValid", local, "-")
  /\ ret' = GeomRef(Len(heap) + 1)
  /\ pc' = "done"
  /\ UNCHANGED <<fn, heap0, subject, clipper, feature, pass, first,
                 nullValid>>

(* The caller passes the result of a first call to a second call *)
CallAgain ==
  /\ fn = "clean_geometry_artifacts" /\ pc = "done" /\ pass = 1
  /\ pass' = 2
  /\ first' = heap[ret.v]
  /\ subject' = ret.v
  /\ local' = ret.v
  /\ heap0' = heap
  /\ calls' = <<>>
  /\ ret' = None
  /\ pc' = "ga_isEmpty"
  /\ UNCHANGED <<fn, heap, clipper, feature, nullValid>>

----------------------------------------------------------------------------
(* get_feature_area *)

(* Variant: the test of line 83 is missing *)
FA_Geometry_NoGuard ==
  /\ fn = "get_feature_area" /\ pc = "fa_geometry"
  /\ heap' = Append(heap, feature.geom)
  /\ calls' = Log("geometry", 0, Bool(Truthy(feature.geom)))
  /\ ret' = ret /\ pc' = "fa_geometry2"
  /\ UNCHANGED <<fn, heap0, subject, clipper, local, feature, pass, first,
                 nullValid>>

FA_Geometry ==
  /\ fn = "get_feature_area" /\ pc = "fa_geometry"
  /\ heap' = Append(heap, feature.geom)
  /\ calls' = Log("geometry", 0, Bool(Truthy(feature.geom)))
  /\ IF Truthy(feature.geom)
     THEN ret' = ret /\ pc' = "fa_geometry2"
     ELSE ret' = Num(0) /\ pc' = "done"
  /\ UNCHANGED <<fn, heap0, subject, clipper, local, feature, pass, first,
                 nullValid>>

FA_Geometry2 ==
  /\ fn = "get_feature_area" /\ pc = "fa_geometry2"
  /\ heap' = Append(heap, feature.geom)
  /\ local' = Len(heap) + 1
  /\ calls' = Log("geometry", 0, "-")
  /\ pc' = "fa_area"
  /\ UNCHANGED <<fn, heap0, subject, clipper, feature, ret, pass, first,
                 nullValid>>

FA_Area ==
  /\ fn = "get_feature_area" /\ pc = "fa_area"
  /\ calls' = Log("area", local, "-")
  /\ ret' = Num(area(heap[local]))
  /\ pc' = "done"
  /\ UNCHANGED <<fn, heap, heap0, subject, clipper, local, feature, pass,
                 first, nullValid>>

----------------------------------------------------------------------------
(* Any engine call may fail; no function has an exception handler, so the
   failure leaves the function at once *)

(* Variant: the failure is caught and the function carries on *)
Raise_Swallowed ==
  /\ pc \in CallPcs
  /\ calls' = Log(OpAt(pc), TargetAt(pc), "raise")
  /\ pc' = NextPc(pc)
  /\ UNCHANGED <<fn, heap, heap0, subject, clipper, local, feature, ret,
                 pass, first, nullValid>>

Raise ==
  /\ pc \in CallPcs
  /\ calls' = Log(OpAt(pc), TargetAt(pc), "raise")
  /\ pc' = "raised"
  /\ UNCHANGED <<fn, heap, heap0, subject, clipper, local, feature, ret,
                 pass, first, nullValid>>

Next ==
  \/ CO_Intersects
  \/ CO_Difference
  \/ CO_IsGeosValid
  \/ CO_MakeValid
  \/ CO_RemoveDuplicateNodes
  \/ CO_IsEmpty
  \/ GA_IsEmpty
  \/ GA_RemoveDuplicateNodes
  \/ GA_IsGeosValid
  \/ GA_MakeValid
  \/ CallAgain
  \/ FA_Geometry
  \/ FA_Geometry2
  \/ FA_Area
  \/ Raise

Spec == Init /\ [][Next]_vars

TypeOK ==
  /\ fn \in Fns
  /\ pc \in CallPcs \cup {"done", "raised"}
  /\ \A i \in 1..Len(heap) : heap[i] \in Geoms(nullValid)
  /\ pass \in {1, 2}
  /\ ret.kind \in {"none", "geom", "num"}
  /\ ret.kind = "geom" => ret.v \in 1..Len(heap)

----------------------------------------------------------------------------
(* Vocabulary of the properties *)

Intersecting == calls # <<>> /\ calls[1].op = "intersects" /\ calls[1].res = "true"

Called(op) == \E i \in 1..Len(calls) : calls[i].op = op

OpsOf(log) == [i \in 1..Len(log) |-> log[i].op]

IsPrefix(s, t) == Len(s) <= Len(t) /\ \A i \in 1..Len(s) : s[i] = t[i]

----------------------------------------------------------------------------
(* C1: when intersects answers false, clean_overlap returns the very object
   it was given as subject, with its value untouched, no object created,
   and intersects as the only engine call made. *)
C1_DisjointPassthrough ==
  (fn = "clean_overlap" /\ calls # <<>> /\ calls[1].res = "false")
    => /\ pc = "done"
       /\ ret = GeomRef(subject)
       /\ heap = heap0
       /\ OpsOf(calls) = <<"intersects">>

C1_Witness ==
  /\ fn = "clean_overlap" /\ pc = "done"
  /\ calls # <<>> /\ calls[1].res = "false"
  /\ ret = GeomRef(subject)
  /\ HasDup(heap[subject].verts) /\ ~isGeosValid(heap[subject])

----------------------------------------------------------------------------
(* C2 as stated: for an intersecting pair the geometry returned by
   clean_overlap passes the validity predicate and has no duplicate
   coincident vertices at the moment of return. *)
C2_ValidAndDedupedAtReturn ==
  (fn = "clean_overlap" /\ pc = "done" /\ Intersecting)
    => /\ isGeosValid(heap[ret.v])
       /\ ~HasDup(heap[ret.v].verts)

(* The geometry returned for an intersecting pair has no duplicates *)
C2_ReturnDeduped ==
  (fn = "clean_overlap" /\ pc = "done" /\ Intersecting)
    => ~HasDup(heap[ret.v].verts)

(* The step of line 43: valid before, deduplicated after *)
C2_DedupStep ==
  (fn = "clean_overlap" /\ pc = "co_removeDuplicateNodes" /\ pc' = "co_isEmpty")
    => /\ isGeosValid(heap[local])
       /\ ~HasDup(heap'[local].verts)
       /\ (heap'[local].verts = heap[local].verts => isGeosValid(heap'[local]))

(* C2 amended: for an intersecting pair the geometry passes the validity
   predicate at the moment removeDuplicateNodes is invoked on it (validity
   is established before deduplication and not re-checked after it), the
   deduplicated geometry still passes it when the deduplication removed no
   vertex, and the geometry returned has no duplicate coincident
   vertices. *)
C2_ValidBeforeDedup == []C2_ReturnDeduped /\ [][C2_DedupStep]_vars

C2_Witness ==
  /\ fn = "clean_overlap" /\ pc = "done" /\ Intersecting
  /\ Called("makeValid")
  /\ ret = GeomRef(local)
  /\ isGeosValid(heap[ret.v]) /\ ~HasDup(heap[ret.v].verts)

----------------------------------------------------------------------------
(* C3: for an intersecting pair, clean_overlap returns a newly built
   canonical empty geometry exactly when the repaired and deduplicated
   difference is empty, and otherwise returns that difference object
   itself. *)
C3_EmptyResult ==
  (fn = "clean_overlap" /\ pc = "done" /\ Intersecting)
    => /\ calls[Len(calls)] = Call("isEmpty", local, Bool(isEmpty(heap[local])))
       /\ local \notin {subject, clipper}
       /\ IF isEmpty(heap[local])
          THEN /\ ret.kind = "geom"
               /\ ret.v = Len(heap)
               /\ ret.v \notin {subject, clipper, local}
               /\ \A i \in 1..Len(calls) : calls[i].on # ret.v
               /\ heap[ret.v] = NullGeom(nullValid)
          ELSE ret = GeomRef(local)

C3_Witness ==
  /\ fn = "clean_overlap" /\ pc = "done" /\ Intersecting
  /\ isEmpty(heap[local]) /\ ~heap[local].null
  /\ ret.v # local /\ heap[ret.v].null

----------------------------------------------------------------------------
(* C4: on an empty geometry clean_geometry_artifacts returns the object it
   was given, untouched, after the single call isEmpty. *)
C4_EmptyPassthrough ==
  (fn = "clean_geometry_artifacts" /\ calls # <<>> /\ calls[1].res = "true")
    => /\ pc = "done"
       /\ ret = GeomRef(subject)
       /\ heap = heap0
       /\ OpsOf(calls) = <<"isEmpty">>

C4_Witness ==
  /\ fn = "clean_geometry_artifacts" /\ pc = "done" /\ pass = 1
  /\ isEmpty(heap0[subject]) /\ ~isGeosValid(heap0[subject])
  /\ ret = GeomRef(subject)

----------------------------------------------------------------------------
(* C5: on a non-empty geometry, invalid ones included,
   clean_geometry_artifacts returns a geometry that passes the validity
   predicate. *)
C5_ResultValid ==
  (fn = "clean_geometry_artifacts" /\ pc = "done" /\ ~isEmpty(heap0[subject]))
    => isGeosValid(heap[ret.v])

C5_Witness ==
  /\ fn = "clean_geometry_artifacts" /\ pc = "done" /\ pass = 1
  /\ ~isEmpty(heap0[subject]) /\ ~isGeosValid(heap0[subject])
  /\ Called("makeValid")
  /\ isGeosValid(heap[ret.v])

----------------------------------------------------------------------------
(* The value returned by get_feature_area, and the calls it made *)
C6_AreaState ==
  fn = "get_feature_area"
    => /\ (calls # <<>> /\ calls[1].res = "false")
            => /\ pc = "done" /\ ret = Num(0)
               /\ OpsOf(calls) = <<"geometry">>
       /\ (pc = "done" /\ Truthy(feature.geom))
            => /\ ret = Num(area(feature.geom))
               /\ OpsOf(calls) = <<"geometry", "geometry", "area">>
       /\ \A i \in 1..Len(heap) : heap[i] = feature.geom

(* C6: get_feature_area returns 0 when the feature's geometry is falsy,
   without calling area; otherwise it returns the engine's area of the
   feature's geometry; the feature and the geometries handed out by its
   accessor are never modified. *)
C6_FeatureArea == []C6_AreaState /\ [][feature' = feature]_vars

C6_Witness ==
  /\ fn = "get_feature_area" /\ pc = "done"
  /\ Truthy(feature.geom)
  /\ ret.kind = "num" /\ ret.v > 0

----------------------------------------------------------------------------
(* C7 as stated: in clean_overlap and in clean_geometry_artifacts alike,
   removeDuplicateNodes is applied to a geometry the caller passed in. *)
C7_DedupOnArgument ==
  \A i \in 1..Len(calls) :
    (calls[i].op = "removeDuplicateNodes" /\ calls[i].res # "raise")
      => calls[i].on \in {subject, clipper}

(* C7 amended: exactly one of the three functions, clean_geometry_artifacts,
   mutates its input in place through removeDuplicateNodes (the argument
   holds its deduplicated vertices afterwards); clean_overlap applies
   removeDuplicateNodes only to the geometry obtained from difference or
   makeValid and leaves both arguments as they were; get_feature_area
   mutates nothing. *)
C7_OnlyArtifactsMutatesInput ==
  /\ fn = "clean_overlap"
       => /\ heap[subject] = heap0[subject]
          /\ heap[clipper] = heap0[clipper]
          /\ \A i \in 1..Len(calls) :
               calls[i].op = "removeDuplicateNodes"
                 => calls[i].on \notin {subject, clipper}
  /\ fn = "clean_geometry_artifacts"
       => /\ \A i \in 1..Len(calls) :
               calls[i].op = "removeDuplicateNodes" => calls[i].on = subject
          /\ (Called("removeDuplicateNodes") /\ pc # "raised")
               => heap[subject].verts = Dedup(heap0[subject].verts)
          /\ ~Called("removeDuplicateNodes") => heap[subject] = heap0[subject]
  /\ fn = "get_feature_area"
       => /\ ~Called("removeDuplicateNodes")
          /\ \A i \in 1..Len(heap) : heap[i] = feature.geom

C7_Witness ==
  /\ fn = "clean_geometry_artifacts" /\ pc = "done" /\ pass = 1
  /\ heap[subject] # heap0[subject]
  /\ heap[subject].verts = Dedup(heap0[subject].verts)

----------------------------------------------------------------------------
(* The complete call sequences of the two cleaning functions *)
OverlapOrders ==
  {<<"intersects", "difference", "isGeosValid", "makeValid",
     "removeDuplicateNodes", "isEmpty">>,
   <<"intersects", "difference", "isGeosValid",
     "removeDuplicateNodes", "isEmpty">>}

ArtifactsOrders ==
  {<<"isEmpty", "removeDuplicateNodes", "isGeosValid", "makeValid">>}

(* C8: the engine calls come in a fixed order per function.  clean_overlap:
   intersects, difference, isGeosValid, makeValid only after a failed
   check, removeDuplicateNodes, isEmpty.  clean_geometry_artifacts:
   isEmpty, removeDuplicateNodes, isGeosValid, makeValid only after a
   failed check.  makeValid is never called on a geometry that passed. *)
C8_CallOrder ==
  /\ fn = "clean_overlap"
       => \E o \in OverlapOrders : IsPrefix(OpsOf(calls), o)
  /\ fn = "clean_geometry_artifacts"
       => \E o \in ArtifactsOrders : IsPrefix(OpsOf(calls), o)
  /\ \A i \in 1..Len(calls) :
       /\ calls[i].op = "makeValid"
            => /\ i > 1
               /\ calls[i - 1] = Call("isGeosValid", calls[i].on, "false")
       /\ (calls[i].op = "isGeosValid" /\ calls[i].res = "true" /\ i < Len(calls))
            => calls[i + 1].op # "makeValid"
       /\ (calls[i].op = "isGeosValid" /\ calls[i].res = "false" /\ i < Len(calls))
            => calls[i + 1].op = "makeValid"
  /\ (fn = "clean_overlap" /\ pc = "done" /\ Intersecting)
       => OpsOf(calls) \in OverlapOrders
  /\ (fn = "clean_geometry_artifacts" /\ pc = "done" /\ ~isEmpty(heap0[subject]))
       => Len(calls) >= 3

C8_Witness ==
  /\ fn = "clean_overlap" /\ pc = "done"
  /\ OpsOf(calls) = <<"intersects", "difference", "isGeosValid", "makeValid",
                      "removeDuplicateNodes", "isEmpty">>

----------------------------------------------------------------------------
(* The first engine call of each function and the object it is made on *)
FirstCall ==
  CASE fn = "clean_overlap" -> <<"intersects", subject>>
    [] fn = "clean_geometry_artifacts" -> <<"isEmpty", subject>>
    [] fn = "get_feature_area" -> <<"geometry", 0>>

(* C9: a failure of an engine call ends the function at once: it is the
   last call made and nothing is returned.  The first engine call is made
   on the arguments as given, with nothing done before it. *)
C9_FailurePropagates ==
  /\ \A i \in 1..Len(calls) :
       calls[i].res = "raise"
         => i = Len(calls) /\ pc = "raised" /\ ret = None
  /\ pc = "raised" => (calls # <<>> /\ calls[Len(calls)].res = "raise")
  /\ calls # <<>> => <<calls[1].op, calls[1].on>> = FirstCall
  /\ calls = <<>> => (heap = heap0 /\ ret = None)

C9_Witness ==
  /\ fn = "clean_overlap" /\ pc = "raised"
  /\ heap[clipper].null
  /\ OpsOf(calls) = <<"intersects", "difference">>
  /\ ret = None

----------------------------------------------------------------------------
(* C10 as stated: a second pass of clean_geometry_artifacts over the result
   of a first pass returns a geometry equal in value to that result,
   repairs nothing and changes no vertex. *)
C10_Idempotent ==
  (fn = "clean_geometry_artifacts" /\ pass = 2 /\ pc = "done")
    => /\ heap[ret.v] = first
       /\ ~Called("makeValid")
       /\ heap = heap0

(* C10 amended: a first pass that did not call makeValid returns a geometry
   without duplicate coincident vertices, and a second pass over a first
   result without duplicate coincident vertices returns that same object,
   repairs nothing and changes no vertex.  The output of makeValid is not
   deduplicated by the first pass, so nothing is claimed when it carries
   duplicates. *)
C10_IdempotentWhenDeduped ==
  /\ (fn = "clean_geometry_artifacts" /\ pass = 1 /\ pc = "done"
        /\ ~Called("makeValid"))
       => ~HasDup(heap[ret.v].verts)
  /\ (fn = "clean_geometry_artifacts" /\ pass = 2 /\ pc = "done"
        /\ ~HasDup(first.verts))
       => /\ ret = GeomRef(subject)
          /\ heap[ret.v] = first
          /\ ~Called("makeValid")
          /\ heap = heap0

C10_Witness ==
  /\ fn = "clean_geometry_artifacts" /\ pass = 2 /\ pc = "done"
  /\ ~isEmpty(first) /\ ~HasDup(first.verts)
  /\ Len(heap) = 2
  /\ heap[ret.v] = first

====
